---- MODULE Spec2Model ----
(***************************************************************************)
(* A model of the PJAX navigation engine of _includes/js/dependencies/     *)
(* pjax.js (class PJAX, lines 137-384): link interception, asynchronous    *)
(* document retrieval, partial DOM patching, history handling and the      *)
(* load-callback queue.                                                    *)
(*                                                                         *)
(* Every event handler of the program runs to completion (single-threaded  *)
(* JavaScript), so every action below is one whole handler.  What happens  *)
(* inside a handler is kept in the records lastPass, lastExec and          *)
(* lastEvent, which hold the intermediate results of the handler that ran  *)
(* last.                                                                   *)
(***************************************************************************)
EXTENDS Integers, Sequences, FiniteSets, TLC

VARIABLES
    doc,          \* the live document: a sequence of top-level elements
    queue,        \* this.queue, the registered callbacks
    stats,        \* per queue entry: how often it was invoked, and when it was registered
    afterLoad,    \* TRUE once this.afterLoad is this.execQueue
    windowOnload, \* TRUE once window.onload is this.execQueue (unbound)
    setupDone,    \* setup() has run
    loadFired,    \* the window load event has been delivered
    hist,         \* the session history entries of this document
    idx,          \* the session history pointer
    inflight,     \* the requests sent and not yet answered: how many per address
    sent,         \* number of requests sent
    lost,         \* number of requests that failed or whose patch pass threw
    passes,       \* number of load events handled (documents parsed)
    okPasses,     \* number of patch passes that ran to their end
    clicks,       \* number of clicks delivered to intercepted anchors
    pushes,       \* number of history.pushState calls
    lastPass,     \* what the last xhr load handler did
    lastExec,     \* what the last execQueue call did
    lastEvent     \* what the last click / popstate handler did

vars == <<doc, queue, stats, afterLoad, windowOnload, setupDone, loadFired,
          hist, idx, inflight, sent, lost, passes, okPasses, clicks, pushes,
          lastPass, lastExec, lastEvent>>

\* the variables of the navigation side and of the load-queue side
navVars == <<doc, hist, idx, inflight, sent, lost, passes, okPasses, clicks,
             pushes, lastPass, lastEvent>>
queueVars == <<queue, stats, afterLoad, windowOnload, loadFired, lastExec>>

(***************************************************************************)
(* Bounds of the model.                                                    *)
(***************************************************************************)
\* the number of requests the model lets the engine send
MaxRequests == 2
\* the number of callbacks the model lets the site register
MaxQueue == 2

(***************************************************************************)
(* Values.                                                                 *)
(***************************************************************************)
\* the JavaScript value undefined (e.target.href of an element without href,
\* window.queue)
Undefined == "<undefined>"
\* getAttribute() of an attribute the element does not have (null)
Absent == "<null>"
\* the state payload of the first argument of pushState
NullState == "<null state>"

\* the constructor's defaults
DEFAULT_CONTAINER == ".body"
DEFAULT_LINKS == ".pjax-link"
DEFAULT_REPLACE ==
    [ textContent |-> << "title" >>,
      attribute |->
        << [ selector |-> "meta[name$=title]", attribute |-> "content" ],
           [ selector |-> "meta[name$=description]", attribute |-> "content" ],
           [ selector |-> "meta[property^=og:]", attribute |-> "content" ],
           [ selector |-> "meta[property^=article:]", attribute |-> "content" ],
           [ selector |-> "link[rel=canonical]", attribute |-> "href" ] >> ]

\* the engine instance: new PJAX(), then pjax.replace.textContent.push('h1')
container == DEFAULT_CONTAINER
links == DEFAULT_LINKS
replace ==
    [ DEFAULT_REPLACE EXCEPT !.textContent = Append(@, "h1") ]

(***************************************************************************)
(* Documents.  An element is a record: sel is the simple selector the      *)
(* element matches, val its text content (for an element that a text       *)
(* selector matches, and for a script) or the value of the one attribute   *)
(* the engine reads from it (content or href), n the number of click       *)
(* listeners on it, inner whether it has a child element (an icon inside   *)
(* an anchor), id the identity of a container element and kids the         *)
(* elements inside a container.  A document is the sequence of its         *)
(* top-level elements in document order.                                   *)
(***************************************************************************)
Leaf(sel, val) ==
    [ sel |-> sel, val |-> val, n |-> 0, inner |-> FALSE, id |-> 0, kids |-> << >> ]

Anchor(href, inner) ==
    [ sel |-> DEFAULT_LINKS, val |-> href, n |-> 0, inner |-> inner, id |-> 0,
      kids |-> << >> ]

\* a container element; val is the address of the document it was parsed from
Body(id, url, kids) ==
    [ sel |-> DEFAULT_CONTAINER, val |-> url, n |-> 0, inner |-> FALSE, id |-> id,
      kids |-> kids ]

\* the address of the document the server answers for a path it does not have
NotFoundUrl == "/undefined"

Urls == { "/a", "/b", "/c", NotFoundUrl }

\* the identity of the second container element of a document whose first
\* container has identity id
SecondId(id) == 0 - (id + 1)

\* The documents of the site, as the server delivers them; id is the identity
\* the parser gives the container element of this copy of the document.
Page(url, id) ==
    CASE url = "/a" ->
           << Leaf("title", "A"),
              Leaf("meta[name$=description]", "about a"),
              Leaf("link[rel=canonical]", "/a"),
              Leaf("h1", "A"),
              Anchor("/b", TRUE),
              Body(id, url, << Leaf("script", "sa"), Anchor("/b", FALSE) >>),
              Leaf("h1", "foot a") >>
      [] url = "/b" ->
           << Leaf("title", "B"),
              Leaf("meta[name$=description]", Absent),
              Leaf("h1", "B"),
              Anchor("/a", FALSE),
              Body(id, url, << Leaf("h1", "b1"), Leaf("script", "sb1"),
                          Anchor("/a", TRUE), Leaf("script", "sb2") >>),
              Leaf("h1", "foot b") >>
      [] url = "/c" ->
           << Leaf("title", "C"),
              Leaf("h1", "C"),
              Anchor("/a", FALSE),
              Body(id, url, << Leaf("script", "sc1"), Anchor("/a", FALSE) >>),
              Body(SecondId(id), url, << Leaf("script", "sc2") >>) >>
      [] OTHER ->
           << Leaf("title", "404"),
              Leaf("h1", "Not Found"),
              Leaf("h1", "Try again"),
              Anchor("/a", FALSE) >>

(***************************************************************************)
(* Selectors.  A selector is a sequence of simple selectors: one for a     *)
(* plain selector, two for the descendant selectors the engine builds      *)
(* from its container selector.                                            *)
(***************************************************************************)
Simple(s) == << s >>
Descendant(a, b) == << a, b >>

Range(seq) == { seq[k] : k \in 1..Len(seq) }

RECURSIVE AllPathsFrom(_, _)
AllPathsFrom(d, i) ==
    IF i > Len(d) THEN << >>
    ELSE << << i >> >> \o [ j \in 1..Len(d[i].kids) |-> << i, j >> ]
         \o AllPathsFrom(d, i + 1)

\* the elements of a document, as paths, in document order
AllPaths(d) == AllPathsFrom(d, 1)

At(d, p) == IF Len(p) = 1 THEN d[p[1]] ELSE d[p[1]].kids[p[2]]

Matches(d, p, s) ==
    IF Len(s) = 1
    THEN At(d, p).sel = s[1]
    ELSE Len(p) = 2 /\ d[p[1]].sel = s[1] /\ At(d, p).sel = s[2]

\* document.querySelectorAll: the matching elements in document order
querySelectorAll(d, s) ==
    SelectSeq(AllPaths(d), LAMBDA p : Matches(d, p, s))

\* document.querySelector: the first match, or null (<< >>)
querySelector(d, s) ==
    LET all == querySelectorAll(d, s)
    IN IF Len(all) = 0 THEN << >> ELSE all[1]

SetVal(d, p, v) ==
    IF Len(p) = 1
    THEN [ d EXCEPT ![p[1]].val = v ]
    ELSE [ d EXCEPT ![p[1]].kids[p[2]].val = v ]

AddListener(d, p) ==
    IF Len(p) = 1
    THEN [ d EXCEPT ![p[1]].n = @ + 1 ]
    ELSE [ d EXCEPT ![p[1]].kids[p[2]].n = @ + 1 ]


(***************************************************************************)
(* The DOM patcher: the body of the xhr load listener of request().        *)
(***************************************************************************)
\* the conversion setAttribute applies to its value argument
DOMString(v) == IF v = Absent THEN "null" ELSE v

\* as textForEach, but every element receives the text of the first match
RECURSIVE textForEachFirst(_, _, _, _, _)
textForEachFirst(d, response, s, elements, key) ==
    IF key > Len(elements) THEN d
    ELSE LET found == querySelectorAll(response, s)
             d2 == IF Len(found) # 0
                   THEN SetVal(d, elements[key], At(response, found[1]).val)
                   ELSE d
         IN textForEachFirst(d2, response, s, elements, key + 1)

\* elements.forEach((element, key) => ...) of the text loop, from index key on
RECURSIVE textForEach(_, _, _, _, _)
textForEach(d, response, s, elements, key) ==
    IF key > Len(elements) THEN d
    ELSE LET found == querySelectorAll(response, s)
             d2 == IF Len(found) # 0 /\ key <= Len(found)
                   THEN SetVal(d, elements[key], At(response, found[key]).val)
                   ELSE d
         IN textForEach(d2, response, s, elements, key + 1)

\* the loop over this.replace.textContent, from entry i on
RECURSIVE replaceTextContent(_, _, _)
replaceTextContent(d, response, i) ==
    IF i > Len(replace.textContent) THEN d
    ELSE LET s == Simple(replace.textContent[i])
             elements == querySelectorAll(d, s)
         IN replaceTextContent(textForEach(d, response, s, elements, 1),
                               response, i + 1)

\* elements.forEach((element, key) => ...) of the attribute loop
RECURSIVE attributeForEach(_, _, _, _, _)
attributeForEach(d, response, s, elements, key) ==
    IF key > Len(elements) THEN d
    ELSE LET found == querySelectorAll(response, s)
             d2 == IF Len(found) # 0 /\ key <= Len(found)
                   THEN SetVal(d, elements[key],
                               DOMString(At(response, found[key]).val))
                   ELSE d
         IN attributeForEach(d2, response, s, elements, key + 1)

\* the loop over this.replace.attribute, from entry i on
RECURSIVE replaceAttribute(_, _, _)
replaceAttribute(d, response, i) ==
    IF i > Len(replace.attribute) THEN d
    ELSE LET s == Simple(replace.attribute[i].selector)
             elements == querySelectorAll(d, s)
         IN replaceAttribute(attributeForEach(d, response, s, elements, 1),
                             response, i + 1)

\* addLinkEvent(pjaxLinks): one more click listener on every element of the list
RECURSIVE addLinkEventFrom(_, _, _)
addLinkEventFrom(d, pjaxLinks, k) ==
    IF k > Len(pjaxLinks) THEN d
    ELSE addLinkEventFrom(AddListener(d, pjaxLinks[k]), pjaxLinks, k + 1)

addLinkEvent(d, pjaxLinks) == addLinkEventFrom(d, pjaxLinks, 1)

RemoveAt(d, i) == SubSeq(d, 1, i - 1) \o SubSeq(d, i + 1, Len(d))

\* as replaceChild, but merging: the live container stays and takes over the
\* children of the fetched one
replaceChildMerge(d, currentPage, response, newPage) ==
    [ live |-> [ d EXCEPT ![currentPage[1]].kids = response[newPage[1]].kids,
                          ![currentPage[1]].val = response[newPage[1]].val ],
      response |-> RemoveAt(response, newPage[1]) ]

\* currentPage.parentNode.replaceChild(newPage, currentPage): newPage leaves the
\* fetched document and takes the place of currentPage in the live one
replaceChild(d, currentPage, response, newPage) ==
    [ live |-> [ d EXCEPT ![currentPage[1]] = response[newPage[1]] ],
      response |-> RemoveAt(response, newPage[1]) ]

\* the text of the script elements a node list holds
RECURSIVE ScriptTexts(_, _, _)
ScriptTexts(d, scripts, k) ==
    IF k > Len(scripts) THEN << >>
    ELSE << At(d, scripts[k]).val >> \o ScriptTexts(d, scripts, k + 1)

\* no element (null)
NoElement == Leaf("", "")

\* as wireIncoming, but the links are looked up in the live document
wireLive(d, response) ==
    [ live |-> addLinkEvent(d, querySelectorAll(d, Simple(links))),
      response |-> response ]

\* this.addLinkEvent(response.querySelectorAll(`${this.container} ${this.links}`)):
\* the anchors inside the containers of the fetched document get their listener
wireIncoming(d, response) ==
    [ live |-> d,
      response |-> addLinkEvent(response,
                       querySelectorAll(response, Descendant(container, links))) ]

\* as SwapOutcome, but a missing container is guarded against and the swap skipped
SwapOutcomeGuarded(currentPage, newPage) ==
    IF currentPage = << >> \/ newPage = << >> THEN "skip" ELSE "swap"

\* what the statement currentPage.parentNode.replaceChild(newPage, currentPage)
\* comes to: a TypeError when currentPage is null (null.parentNode) or newPage
\* is null (replaceChild(null, ...)), the swap otherwise
SwapOutcome(currentPage, newPage) ==
    IF currentPage = << >> \/ newPage = << >> THEN "throw" ELSE "swap"

\* as PatchPass, but nothing is copied when the listener is going to throw
PatchPassAllOrNothing(d, response) ==
    LET newPage == querySelector(response, Simple(container))
        currentPage == querySelector(d, Simple(container))
        w == wireIncoming(replaceAttribute(replaceTextContent(d, response, 1),
                                           response, 1), response)
        sw == replaceChild(w.live, currentPage, w.response, newPage)
    IN IF SwapOutcome(currentPage, newPage) = "throw"
       THEN [ threw |-> TRUE, post |-> d, currentPage |-> NoElement,
              evaluated |-> << >> ]
       ELSE [ threw |-> FALSE, post |-> sw.live,
              currentPage |-> At(w.live, currentPage),
              evaluated |->
                 ScriptTexts(sw.response,
                    querySelectorAll(sw.response, Descendant(container, "script")),
                    1) ]

\* The load listener up to the replay hook.  threw: the listener ended in a
\* TypeError at the replaceChild statement (currentPage or newPage is null);
\* post is the live document the listener leaves, currentPage the element the
\* swap took out of the live document, as it was at that moment, evaluated the
\* texts of the script elements created and inserted, in order.
PatchPass(d, response) ==
    LET d1 == replaceTextContent(d, response, 1)
        d2 == replaceAttribute(d1, response, 1)
        w == wireIncoming(d2, response)
        newPage == querySelector(w.response, Simple(container))
        currentPage == querySelector(w.live, Simple(container))
        outcome == SwapOutcome(currentPage, newPage)
        sw == IF outcome = "swap"
              THEN replaceChild(w.live, currentPage, w.response, newPage)
              ELSE w
        scripts == querySelectorAll(sw.response, Descendant(container, "script"))
    IN [ threw |-> outcome = "throw",
         post |-> sw.live,
         currentPage |-> IF outcome = "swap" THEN At(w.live, currentPage)
                         ELSE NoElement,
         evaluated |-> IF outcome = "throw" THEN << >>
                       ELSE ScriptTexts(sw.response, scripts, 1) ]

\* as loadListener, but the hook is called before the document is patched
loadListenerHookFirst(d, response, hooked) ==
    LET pass == PatchPass(d, response)
        hook == ~pass.threw /\ hooked
    IN pass @@ [ hook |-> hook, observed |-> IF hook THEN d ELSE << >> ]

\* The whole load listener: the patch pass, then this.afterLoad() if it is a
\* function (hooked).  observed is the live document the callbacks of the
\* replay find.
loadListener(d, response, hooked) ==
    LET pass == PatchPass(d, response)
        hook == ~pass.threw /\ hooked
    IN pass @@ [ hook |-> hook, observed |-> IF hook THEN pass.post ELSE << >> ]

(***************************************************************************)
(* The load queue.                                                         *)
(***************************************************************************)
Callbacks == { "f", "bad" }
\* the callbacks that throw when invoked
Throwing == { "bad" }
\* an argument of onload that is not a function
NotAFunction == "no function"

IsFunction(c) == c \in Callbacks

\* as queuePush, but the callback is put in front
queueUnshift(q, callback) ==
    IF IsFunction(callback) THEN << callback >> \o q ELSE q

\* if(typeof callback === 'function'){ this.queue.push(callback); }
queuePush(q, callback) ==
    IF IsFunction(callback) THEN Append(q, callback) ELSE q

\* as queueForEach, but a callback already invoked in this pass is skipped
RECURSIVE queueForEachOnce(_, _)
queueForEachOnce(q, i) ==
    IF i > Len(q) THEN [ invoked |-> << >>, at |-> << >>, logged |-> << >> ]
    ELSE LET rest == queueForEachOnce(q, i + 1)
         IN IF \E k \in 1..(i - 1) : q[k] = q[i]
            THEN rest
            ELSE [ invoked |-> << q[i] >> \o rest.invoked,
                   at |-> << i >> \o rest.at,
                   logged |-> (IF q[i] \in Throwing THEN << q[i] >> ELSE << >>)
                              \o rest.logged ]

\* as queueForEach, but without the try/catch: the first callback that throws
\* ends the loop
RECURSIVE queueForEachUncaught(_, _)
queueForEachUncaught(q, i) ==
    IF i > Len(q) THEN [ invoked |-> << >>, at |-> << >>, logged |-> << >> ]
    ELSE IF q[i] \in Throwing
         THEN [ invoked |-> << q[i] >>, at |-> << i >>, logged |-> << >> ]
         ELSE LET rest == queueForEachUncaught(q, i + 1)
              IN [ invoked |-> << q[i] >> \o rest.invoked,
                   at |-> << i >> \o rest.at,
                   logged |-> rest.logged ]

\* this.queue.forEach(func => ...) from index i on: the callbacks invoked, their
\* positions in the queue, the callbacks whose failure was caught and logged
RECURSIVE queueForEach(_, _)
queueForEach(q, i) ==
    IF i > Len(q) THEN [ invoked |-> << >>, at |-> << >>, logged |-> << >> ]
    ELSE LET rest == queueForEach(q, i + 1)
         IN IF IsFunction(q[i])
            THEN [ invoked |-> << q[i] >> \o rest.invoked,
                   at |-> << i >> \o rest.at,
                   logged |-> (IF q[i] \in Throwing THEN << q[i] >> ELSE << >>)
                              \o rest.logged ]
            ELSE rest

\* execQueue() called with the given this: "pjax" when called as a method of the
\* engine, "window" when called as the window's load handler.  window.queue is
\* undefined, so this.queue.forEach raises a TypeError there.
execQueue(this, q) ==
    IF this = "pjax"
    THEN [ ran |-> TRUE, this |-> this, queue |-> q, raised |-> FALSE ]
         @@ queueForEach(q, 1)
    ELSE [ ran |-> TRUE, this |-> this, queue |-> q, raised |-> TRUE,
           invoked |-> << >>, at |-> << >>, logged |-> << >> ]

NoExec ==
    [ ran |-> FALSE, this |-> "", queue |-> << >>, raised |-> FALSE,
      invoked |-> << >>, at |-> << >>, logged |-> << >> ]

Count(seq, x) == Cardinality({ k \in 1..Len(seq) : seq[k] = x })

\* the bookkeeping of invocations: field is "load" (setup and the window load
\* event) or "pass" (the replay hook of a patch pass)
Bump(st, at, field) ==
    [ i \in 1..Len(st) |->
        IF field = "load"
        THEN [ st[i] EXCEPT !.load = @ + Count(at, i) ]
        ELSE [ st[i] EXCEPT !.pass = @ + Count(at, i) ] ]


(***************************************************************************)
(* Requests and history.                                                   *)
(***************************************************************************)
\* history && history.pushState: the browsers modelled have the History API
HistorySupported == TRUE

\* xhr.open('GET', url): the url argument is converted to a string and resolved
\* against the address of the document, so undefined names the path "undefined"
RequestUrl(url) == IF url = Undefined THEN NotFoundUrl ELSE url

\* as request, but nothing is sent while another request is in flight
requestIfIdle(s, url) ==
    IF \E u \in Urls : s.inflight[u] > 0
    THEN [ s EXCEPT !.calls = Append(@, "request") ]
    ELSE [ s EXCEPT !.inflight[RequestUrl(url)] = @ + 1,
                    !.requested = Append(@, RequestUrl(url)),
                    !.calls = Append(@, "request") ]

\* request(url): one more XMLHttpRequest is sent; s.requested lists the
\* addresses the running handler has asked for
request(s, url) ==
    [ s EXCEPT !.inflight[RequestUrl(url)] = @ + 1,
               !.requested = Append(@, RequestUrl(url)),
               !.calls = Append(@, "request") ]

\* history.pushState(state, title, url): the entries after the pointer are dropped
\* and a new entry follows the current one; an undefined url argument stands for
\* the omitted argument and the entry keeps the current address
pushState(s, state, url) ==
    LET entry == [ url |-> IF url = Undefined THEN s.hist[s.idx].url ELSE url,
                   state |-> state ]
    IN [ s EXCEPT !.hist = Append(SubSeq(s.hist, 1, s.idx), entry),
                  !.idx = s.idx + 1,
                  !.pushed = Append(@, entry),
                  !.calls = Append(@, "pushState") ]

\* as clickListener, but the entry is pushed before the request is sent
clickListenerPushFirst(s, href) ==
    request(pushState([ s EXCEPT !.prevented = TRUE ], NullState, href), href)

\* the click listener addLinkEvent attaches; s is the state it acts on and href
\* the value of e.target.href
clickListener(s, href) ==
    pushState(request([ s EXCEPT !.prevented = TRUE ], href), NullState, href)

\* a click event runs every listener of the anchor, in turn
RECURSIVE dispatchClick(_, _, _)
dispatchClick(s, href, n) ==
    IF n = 0 THEN s ELSE dispatchClick(clickListener(s, href), href, n - 1)

\* as onpopstate, but pushing an entry as the click listener does
onpopstatePush(s) ==
    pushState(request(s, s.hist[s.idx].url), NullState, s.hist[s.idx].url)

\* window.onpopstate as setup() installs it: window.location.href is the address
\* of the current entry
onpopstate(s) == request(s, s.hist[s.idx].url)

\* the state a handler starts from, the history being (h, j)
Handler(h, j) ==
    [ inflight |-> inflight, hist |-> h, idx |-> j, prevented |-> FALSE,
      requested |-> << >>, pushed |-> << >>, calls |-> << >> ]

\* as onerror, but the request is sent again
onerrorRetry(s, url) == request(s, url)

\* request() registers a load listener only: nothing of the engine runs when the
\* request for url ends in an error, an abort or a timeout
onerror(s, url) == s

NoPass ==
    [ ran |-> FALSE, url |-> "", threw |-> FALSE, currentPage |-> NoElement,
      evaluated |-> << >>, hook |-> FALSE, observed |-> << >> ]

NoEvent ==
    [ type |-> "none", href |-> "", prevented |-> FALSE, requested |-> << >>,
      pushed |-> << >>, calls |-> << >>, hist |-> << >>, idx |-> 0 ]

(***************************************************************************)
(* The state after the script has run: window.pjax = new PJAX().           *)
(***************************************************************************)
InitAt(u) ==
    /\ doc = Page(u, 0)
    /\ hist = << [ url |-> u, state |-> NullState ] >>
    /\ idx = 1
    /\ queue = << >>
    /\ stats = << >>
    /\ afterLoad = FALSE
    /\ windowOnload = FALSE
    /\ setupDone = FALSE
    /\ loadFired = FALSE
    /\ inflight = [ v \in Urls |-> 0 ]
    /\ sent = 0
    /\ lost = 0
    /\ passes = 0
    /\ okPasses = 0
    /\ clicks = 0
    /\ pushes = 0
    /\ lastPass = NoPass
    /\ lastExec = NoExec
    /\ lastEvent = NoEvent

Init == \E u \in Urls : InitAt(u)

(***************************************************************************)
(* The operations of the engine.                                           *)
(***************************************************************************)
\* pjax.onload(callback)
Onload(callback) ==
    /\ IsFunction(callback) => Len(queue) < MaxQueue
    /\ queue' = queuePush(queue, callback)
    /\ stats' = IF IsFunction(callback)
                THEN Append(stats, [ load |-> 0, pass |-> 0, reg |-> okPasses,
                                     early |-> ~loadFired ])
                ELSE stats
    /\ windowOnload' = TRUE
    /\ afterLoad' = TRUE
    /\ UNCHANGED <<setupDone, loadFired, lastExec>>
    /\ UNCHANGED navVars

\* pjax.setup(), called once by the site
Setup ==
    /\ ~setupDone
    /\ HistorySupported
    /\ \E ex \in { execQueue("pjax", queue) } :
          /\ doc' = addLinkEvent(doc, querySelectorAll(doc, Simple(links)))
          /\ setupDone' = TRUE
          /\ stats' = Bump(stats, ex.at, "load")
          /\ lastExec' = ex
    /\ UNCHANGED <<queue, afterLoad, windowOnload, loadFired, hist, idx,
                   inflight, sent, lost, passes, okPasses, clicks, pushes,
                   lastPass, lastEvent>>

\* the window load event: the browser calls window.onload with this = window
WindowLoad ==
    /\ ~loadFired
    /\ loadFired' = TRUE
    /\ IF windowOnload
       THEN \E ex \in { execQueue("window", queue) } :
               /\ stats' = Bump(stats, ex.at, "load")
               /\ lastExec' = ex
       ELSE UNCHANGED <<stats, lastExec>>
    /\ UNCHANGED <<queue, afterLoad, windowOnload, setupDone>>
    /\ UNCHANGED navVars

\* a click on the anchor at path p of the live document; target is "self" when
\* the anchor itself is the event target and "inner" when its child element is.
\* (A click on an anchor without listener makes the browser leave the page.)
Click(p, target) ==
    /\ At(doc, p).sel = links
    /\ At(doc, p).n >= 1
    /\ target = "inner" => At(doc, p).inner
    /\ sent + At(doc, p).n <= MaxRequests
    /\ \E s1 \in { dispatchClick(Handler(hist, idx),
                                   IF target = "self" THEN At(doc, p).val
                                   ELSE Undefined,
                                   At(doc, p).n) } :
          /\ inflight' = s1.inflight
          /\ sent' = sent + Len(s1.requested)
          /\ hist' = s1.hist
          /\ idx' = s1.idx
          /\ pushes' = pushes + Len(s1.pushed)
          /\ lastEvent' = [ type |-> "click", href |-> At(doc, p).val,
                            prevented |-> s1.prevented,
                            requested |-> s1.requested,
                            pushed |-> s1.pushed, calls |-> s1.calls,
                            hist |-> hist, idx |-> idx ]
    /\ clicks' = clicks + 1
    /\ UNCHANGED <<doc, setupDone, lost, passes, okPasses, lastPass>>
    /\ UNCHANGED queueVars

\* what the popstate event does once the browser has set the history to (h, j)
PopState(h, j) ==
    IF setupDone
    THEN \E s1 \in { onpopstate(Handler(h, j)) } :
            /\ sent < MaxRequests
            /\ inflight' = s1.inflight
            /\ sent' = sent + Len(s1.requested)
            /\ hist' = s1.hist
            /\ idx' = s1.idx
            /\ pushes' = pushes + Len(s1.pushed)
            /\ lastEvent' = [ type |-> "popstate", href |-> h[j].url,
                              prevented |-> FALSE,
                              requested |-> s1.requested,
                              pushed |-> s1.pushed, calls |-> s1.calls,
                              hist |-> h, idx |-> j ]
    ELSE /\ hist' = h
         /\ idx' = j
         /\ UNCHANGED <<inflight, sent, pushes, lastEvent>>

\* the user goes back or forward by one entry
Traverse(j) ==
    /\ j \in 1..Len(hist)
    /\ j \in { idx - 1, idx + 1 }
    /\ PopState(hist, j)
    /\ UNCHANGED <<doc, setupDone, lost, passes, okPasses, clicks, lastPass>>
    /\ UNCHANGED queueVars

\* the user follows a fragment link of the page: the browser adds an entry for
\* the same document and fires popstate
HashNav ==
    /\ Len(hist) <= MaxRequests
    /\ PopState(Append(SubSeq(hist, 1, idx), hist[idx]), idx + 1)
    /\ UNCHANGED <<doc, setupDone, lost, passes, okPasses, clicks, lastPass>>
    /\ UNCHANGED queueVars

\* as typeof_afterLoad, the hook never being wired
typeof_afterLoadUnset == "undefined"

\* typeof this.afterLoad
typeof_afterLoad == IF afterLoad THEN "function" ELSE "undefined"

\* the load event of a request for url: the response has arrived and is patched in
Load(url) ==
    /\ inflight[url] > 0
    /\ \E pass \in { loadListener(doc, Page(url, passes + 1),
                                   typeof_afterLoad = "function") },
          ex \in { execQueue("pjax", queue) } :
       LET hook == pass.hook
       IN /\ doc' = pass.post
          /\ inflight' = [ inflight EXCEPT ![url] = @ - 1 ]
          /\ passes' = passes + 1
          /\ lost' = IF pass.threw THEN lost + 1 ELSE lost
          /\ okPasses' = IF pass.threw THEN okPasses ELSE okPasses + 1
          /\ stats' = IF hook THEN Bump(stats, ex.at, "pass") ELSE stats
          /\ lastExec' = IF hook THEN ex ELSE lastExec
          /\ lastPass' = [ ran |-> TRUE, url |-> url, threw |-> pass.threw,
                           currentPage |-> pass.currentPage,
                           evaluated |-> pass.evaluated, hook |-> hook,
                           observed |-> pass.observed ]
    /\ UNCHANGED <<queue, afterLoad, windowOnload, setupDone, loadFired, hist,
                   idx, sent, clicks, pushes, lastEvent>>

\* a request for url fails (error, abort, timeout): no load event is delivered
Fail(url) ==
    /\ inflight[url] > 0
    /\ \E s1 \in { onerror([ Handler(hist, idx) EXCEPT
                                !.inflight[url] = @ - 1 ], url) } :
          /\ inflight' = s1.inflight
          /\ sent' = sent + Len(s1.requested)
    /\ lost' = lost + 1
    /\ UNCHANGED <<doc, setupDone, hist, idx, passes, okPasses, clicks,
                   pushes, lastPass, lastEvent>>
    /\ UNCHANGED queueVars

Next ==
    \/ \E c \in Callbacks \cup { NotAFunction } : Onload(c)
    \/ Setup
    \/ WindowLoad
    \/ \E p \in Range(AllPaths(doc)), t \in { "self", "inner" } : Click(p, t)
    \/ \E j \in 1..Len(hist) : Traverse(j)
    \/ HashNav
    \/ \E u \in Urls : Load(u)
    \/ \E u \in Urls : Fail(u)

Spec == Init /\ [][Next]_vars

(***************************************************************************)
(* The navigation side alone: the site registers no callback.  Apart from  *)
(* the hook field of lastPass, the variables of navVars never read those   *)
(* of queueVars, so what holds of them here holds under Spec.              *)
(***************************************************************************)
NextNav ==
    \/ Setup
    \/ \E p \in Range(AllPaths(doc)), t \in { "self", "inner" } : Click(p, t)
    \/ \E j \in 1..Len(hist) : Traverse(j)
    \/ HashNav
    \/ \E u \in Urls : Load(u)
    \/ \E u \in Urls : Fail(u)

SpecNav == Init /\ [][NextNav]_vars

(***************************************************************************)
(* The load-queue side: a visit that starts on /a, with clicks and their   *)
(* patch passes as the only navigation.                                    *)
(***************************************************************************)
NextQueue ==
    \/ \E c \in Callbacks \cup { NotAFunction } : Onload(c)
    \/ Setup
    \/ WindowLoad
    \/ \E p \in Range(AllPaths(doc)), t \in { "self", "inner" } : Click(p, t)
    \/ \E u \in Urls : Load(u)
    \/ \E u \in Urls : Fail(u)

\* the pages the load queue is followed from: one with a container, one without
InitQueue == \E u \in { "/a", NotFoundUrl } : InitAt(u)

SpecQueue == InitQueue /\ [][NextQueue]_vars


(***************************************************************************)
(* Claims.                                                                 *)
(***************************************************************************)
\* the live container, or NoElement
ContainerOf(d) ==
    LET p == querySelector(d, Simple(container))
    IN IF p = << >> THEN NoElement ELSE At(d, p)

\* C1: once every request that was sent has completed with a successful patch
\* pass, the container shown is the one fetched from the address of the current
\* history entry.
C1_HistoryConsistent ==
    (sent > 0 /\ lost = 0 /\ \A u \in Urls : inflight[u] = 0)
        => ContainerOf(doc).val = hist[idx].url

\* C2: after setup() and the window load event, every callback registered before
\* the load event has been invoked exactly once by the first-load replay.
C2_ReplayedAtFirstLoad ==
    (setupDone /\ loadFired)
        => \A i \in 1..Len(queue) : stats[i].early => stats[i].load = 1

\* C3: every successful patch pass replays the queue exactly once: a callback has
\* been invoked by patch passes as many times as successful passes have run since
\* it was registered, and a successful pass with a wired hook runs the replay.
C3_ReplayOncePerPass ==
    /\ \A i \in 1..Len(queue) : stats[i].pass = okPasses - stats[i].reg
    /\ (lastPass.ran /\ ~lastPass.threw
            /\ \E i \in 1..Len(queue) : stats[i].reg < okPasses)
           => lastPass.hook

C3_Witness ==
    /\ okPasses = 2
    /\ Len(queue) >= 1
    /\ stats[1].reg = 0
    /\ stats[1].pass = 2

\* the texts of the inline scripts inside the container of the document at url
ContainerScripts(url) ==
    LET d == Page(url, 0)
    IN ScriptTexts(d, querySelectorAll(d, Descendant(container, "script")), 1)

\* C4: a successful patch pass evaluates every inline script of the fetched
\* container exactly once, in document order.
C4_ScriptsEvaluated ==
    (lastPass.ran /\ ~lastPass.threw)
        => lastPass.evaluated = ContainerScripts(lastPass.url)

\* C5: a replay invokes the registered callbacks in their order of registration,
\* without deduplication.
C5_ReplayInOrder ==
    (lastExec.ran /\ lastExec.this = "pjax")
        => lastExec.invoked = lastExec.queue

C5_Witness ==
    /\ lastExec.ran
    /\ lastExec.this = "pjax"
    /\ lastExec.queue = << "f", "f" >>
    /\ lastExec.invoked = << "f", "f" >>

\* C6: a callback that throws during a replay is caught and logged: the replay
\* does not raise and every callback registered after it is still invoked.
C6_ThrowIsolated ==
    \A k \in 1..Len(lastExec.invoked) :
        lastExec.invoked[k] \in Throwing
            => /\ ~lastExec.raised
               /\ Count(lastExec.logged, lastExec.invoked[k]) >= 1
               /\ \A j \in (lastExec.at[k] + 1)..Len(lastExec.queue) :
                      Count(lastExec.at, j) = 1

C6_Witness ==
    /\ lastExec.ran
    /\ lastExec.queue = << "bad", "f" >>
    /\ lastExec.invoked = << "bad", "f" >>


\* the entries of the replace configuration: a selector, and whether its
\* attribute (rather than its text) is copied
ReplaceEntries ==
    { [ selector |-> replace.textContent[k], attr |-> FALSE ] :
        k \in 1..Len(replace.textContent) }
    \cup { [ selector |-> replace.attribute[k].selector, attr |-> TRUE ] :
             k \in 1..Len(replace.attribute) }

\* the document the last load handler received, as it was fetched
FetchedBy(pass, k) == Page(pass.url, k)

\* what the element at position i of selector e of the live document pre has to
\* carry once the copy loops are done
ExpectedVal(pre, fetched, e, i) ==
    LET live == querySelectorAll(pre, Simple(e.selector))
        found == querySelectorAll(fetched, Simple(e.selector))
    IN IF i <= Len(found)
       THEN IF e.attr /\ At(fetched, found[i]).val = Absent THEN "null"
            ELSE At(fetched, found[i]).val
       ELSE At(pre, live[i]).val

\* what the element at path p of the live document pre carried when the copy
\* loops were done: an element of the container the swap took out is read there,
\* any other element in the document the handler left
ActualVal(pre, post, pass, p) ==
    LET cur == querySelector(pre, Simple(container))
    IN IF ~pass.threw /\ Len(p) = 2 /\ p[1] = cur[1]
       THEN pass.currentPage.kids[p[2]].val
       ELSE At(post, p).val

\* C7 (amended): for every replace entry and every position i among the elements
\* the selector matches in the live document before the pass, the copy loops give
\* the i-th element the text of the fetched i-th match (for an attribute: the
\* string form of its value, "null" when the fetched element lacks it), or leave
\* it unchanged when the fetched document has no i-th match; elements outside
\* the swapped container keep that value to the end of the pass.
C7_PositionalCopy ==
    [][ passes' # passes =>
          \A e \in ReplaceEntries :
             LET live == querySelectorAll(doc, Simple(e.selector))
             IN \A i \in 1..Len(live) :
                   ActualVal(doc, doc', lastPass', live[i])
                       = ExpectedVal(doc, FetchedBy(lastPass', passes'), e, i)
      ]_vars

C7_Witness ==
    /\ lastPass.ran
    /\ ~lastPass.threw
    /\ lastPass.url = "/a"
    /\ Len(lastPass.currentPage.kids) >= 1
    /\ lastPass.currentPage.kids[1].val = "foot a"
    /\ doc[Len(doc)].val = "foot b"

\* C7 as claimed: after a successful pass the i-th element a selector matches in
\* the live document carries the value of the fetched i-th match, and is
\* unchanged if there is none.
C7_FinalPositions ==
    [][ okPasses' # okPasses =>
          \A e \in ReplaceEntries :
             LET before == querySelectorAll(doc, Simple(e.selector))
                 after == querySelectorAll(doc', Simple(e.selector))
                 fetched == FetchedBy(lastPass', passes')
                 found == querySelectorAll(fetched, Simple(e.selector))
             IN \A i \in 1..Len(after) :
                   IF i <= Len(found)
                   THEN At(doc', after[i]).val = At(fetched, found[i]).val
                   ELSE i <= Len(before)
                           => At(doc', after[i]).val = At(doc, before[i]).val
      ]_vars

\* what a container holds: its elements without their listeners
Content(el) ==
    [ k \in 1..Len(el.kids) |-> [ sel |-> el.kids[k].sel, val |-> el.kids[k].val ] ]

\* C8 (amended): after a successful pass the live container is another element
\* than before, namely the fetched document's container with the content that
\* document had when fetched, and the swap is the only step of the pass that
\* changes which element the live container is.
C8_WholesaleSwap ==
    [][ okPasses' # okPasses =>
          LET old == ContainerOf(doc)
              new == ContainerOf(doc')
              fetched == ContainerOf(FetchedBy(lastPass', passes'))
          IN /\ new.id # old.id
             /\ new.id = fetched.id
             /\ Content(new) = Content(fetched)
             /\ lastPass'.currentPage.id = old.id
      ]_vars

C8_Witness ==
    /\ lastPass.ran
    /\ ~lastPass.threw
    /\ ContainerOf(doc).id = passes
    /\ lastPass.currentPage.id # passes
    /\ Content(ContainerOf(doc)) = Content(ContainerOf(Page(lastPass.url, 0)))

\* C8 as claimed: moreover no step of the pass before the swap changes the
\* container: the element the swap takes out is as it was when the pass began.
C8_OnlySwapChangesContainer ==
    [][ okPasses' # okPasses => lastPass'.currentPage = ContainerOf(doc) ]_vars

\* C9: a click on an intercepted anchor suppresses the default action, sends one
\* GET request for the anchor's address and pushes one entry with that address
\* and a null state; there are as many pushes as intercepted clicks.
C9_ClickRequestsAndPushesHref ==
    /\ lastEvent.type = "click"
          => /\ lastEvent.prevented
             /\ lastEvent.requested = << lastEvent.href >>
             /\ lastEvent.pushed
                  = << [ url |-> lastEvent.href, state |-> NullState ] >>
    /\ pushes = clicks

\* C10: a popstate event requests the current window location and pushes no
\* entry: the history and its pointer stay as the browser set them.
C10_PopstateNoPush ==
    lastEvent.type = "popstate"
        => /\ lastEvent.requested = << lastEvent.hist[lastEvent.idx].url >>
           /\ lastEvent.pushed = << >>
           /\ hist = lastEvent.hist
           /\ idx = lastEvent.idx

C10_Witness ==
    /\ lastEvent.type = "popstate"
    /\ pushes = 0
    /\ Len(lastEvent.requested) = 1
    /\ Len(hist) = 2

\* the elements of a document the container selector matches, in document order
Containers(d) == querySelectorAll(d, Simple(container))

\* their identities
ContainerIds(d) == [ k \in 1..Len(Containers(d)) |-> At(d, Containers(d)[k]).id ]

\* C11, as stated: a load listener that runs while the container selector
\* matches no element or several, in the live document or in the fetched one,
\* skips the swap: the live containers are the elements they were and the
\* listener does not throw.
C11_SwapSkipped ==
    [][ ( /\ passes' # passes
          /\ \/ Len(Containers(doc)) # 1
             \/ Len(Containers(FetchedBy(lastPass', passes'))) # 1 )
        => ( ~lastPass'.threw /\ ContainerIds(doc') = ContainerIds(doc) ) ]_vars

\* C11, amended: when the container selector matches nothing in the live
\* document or in the fetched one the load listener throws and the live
\* containers are the elements they were; in every other case it does not throw,
\* the first live match is replaced by the first fetched match and the other
\* live matches stay.
C11_NoMatchThrowsElseFirstSwapped ==
    [][ passes' # passes =>
        LET cur == Containers(doc)
            new == Containers(FetchedBy(lastPass', passes'))
        IN /\ (Len(cur) = 0 \/ Len(new) = 0)
                => ( lastPass'.threw /\ ContainerIds(doc') = ContainerIds(doc) )
           /\ (Len(cur) > 0 /\ Len(new) > 0)
                => /\ ~lastPass'.threw
                   /\ ContainerIds(doc') =
                         << At(FetchedBy(lastPass', passes'), new[1]).id >>
                            \o Tail(ContainerIds(doc)) ]_vars

\* a listener has swapped the first of two live containers for the first of two
\* fetched ones
C11_Witness ==
    /\ lastPass.ran /\ ~lastPass.threw /\ lastPass.url = "/c"
    /\ ContainerIds(doc) = << passes, SecondId(0) >>

\* C12: a load listener that runs while the container selector matches nothing
\* in the live document or in the fetched one throws at the replaceChild
\* statement, nothing catches it, and what follows the swap is not done: no
\* script is created and the load queue is not replayed.
C12_ThrowEndsListener ==
    [][ ( /\ passes' # passes
          /\ \/ Len(Containers(doc)) = 0
             \/ Len(Containers(FetchedBy(lastPass', passes'))) = 0 )
        => /\ lastPass'.threw
           /\ lost' = lost + 1
           /\ okPasses' = okPasses
           /\ lastPass'.evaluated = << >>
           /\ ~lastPass'.hook
           /\ stats' = stats
           /\ lastExec' = lastExec ]_vars

\* a listener threw with the hook wired, a callback registered and a script in
\* the container it had fetched
C12_Witness ==
    /\ lastPass.ran /\ lastPass.threw /\ lastPass.url = "/a"
    /\ afterLoad /\ Len(queue) > 0
    /\ \A i \in 1..Len(queue) : stats[i].pass = 0

\* the number of requests in flight
RECURSIVE InFlightOver(_, _)
InFlightOver(f, U) ==
    IF U = {} THEN 0
    ELSE LET u == CHOOSE x \in U : TRUE IN f[u] + InFlightOver(f, U \ {u})

InFlight(f) == InFlightOver(f, Urls)

\* C13: a request that fails stalls silently: its end runs no load listener,
\* leaves the live document on what it showed, invokes no callback and sends
\* nothing again; every request that was sent is in flight, has failed, or has
\* run one load listener.
C13_FailureStalls ==
    [][ /\ (lost' # lost /\ passes' = passes)
            => /\ doc' = doc
               /\ lastPass' = lastPass
               /\ stats' = stats
               /\ lastExec' = lastExec
               /\ sent' = sent
               /\ InFlight(inflight') = InFlight(inflight) - 1
        /\ InFlight(inflight') + lost' + okPasses' = sent' ]_vars

\* a request has failed with the hook wired and a callback registered, and no
\* load listener has run
C13_Witness ==
    /\ lost > 0 /\ passes = 0 /\ sent > 0 /\ InFlight(inflight) = 0
    /\ afterLoad /\ Len(queue) > 0
    /\ ContainerOf(doc).id = 0
    /\ \A i \in 1..Len(queue) : stats[i].pass = 0

\* C14: navigations that overlap are neither sequenced, cancelled nor
\* deduplicated: every click sends one more request and leaves the others in
\* flight; the load listener of every response takes only its own request out
\* of flight and, both documents having a container, puts the container of that
\* response in the live document and replays the load queue when the hook is
\* wired, whatever was requested since.
C14_ArrivalOrderWins ==
    [][ /\ clicks' # clicks
            => /\ sent' = sent + 1
               /\ \E u \in Urls : inflight' = [ inflight EXCEPT ![u] = @ + 1 ]
        /\ passes' # passes
            => /\ inflight[lastPass'.url] > 0
               /\ inflight' = [ inflight EXCEPT ![lastPass'.url] = @ - 1 ]
        /\ ( /\ passes' # passes
             /\ Len(Containers(doc)) > 0
             /\ Len(Containers(FetchedBy(lastPass', passes'))) > 0 )
            => /\ ContainerOf(doc').id = passes'
               /\ ContainerOf(doc').val = lastPass'.url
               /\ lastPass'.hook = afterLoad
               /\ afterLoad => lastExec'.invoked = queue ]_vars

\* "/b" was requested first and "/undefined" second; the response for "/b"
\* arrived second and is what the live document shows
C14_Witness ==
    /\ passes = 2 /\ sent = 2
    /\ lastEvent.type = "click" /\ lastEvent.requested = << NotFoundUrl >>
    /\ lastPass.url = "/b" /\ ~lastPass.threw /\ lastPass.hook
    /\ ContainerOf(doc).id = 2 /\ ContainerOf(doc).val = "/b"

\* the anchors of a document the link selector matches
LinkPaths(d) == { p \in Range(AllPaths(d)) : At(d, p).sel = links }

\* C15: once setup() has run, every anchor of the live document the link
\* selector matches has a click listener: those setup() found have it from
\* setup(), those a load listener brought in had it before they were inserted.
C15_LiveAnchorsIntercepted ==
    setupDone => \A p \in LinkPaths(doc) : At(doc, p).n >= 1

\* the live container is a fetched one and holds an anchor with its listener
C15_Witness ==
    /\ setupDone /\ okPasses > 0 /\ ~lastPass.threw
    /\ ContainerOf(doc).id = passes
    /\ \E k \in 1..Len(ContainerOf(doc).kids) :
          /\ ContainerOf(doc).kids[k].sel = links
          /\ ContainerOf(doc).kids[k].n = 1

\* C18: setup() being called once, no anchor of the live document has more than
\* one click listener, so a click sends one request and pushes one entry.
C18_OneHandlerPerAnchor ==
    /\ \A p \in LinkPaths(doc) : At(doc, p).n <= 1
    /\ lastEvent.type = "click"
          => /\ Len(lastEvent.requested) = 1
             /\ Len(lastEvent.pushed) = 1
             /\ lastEvent.prevented

\* the anchor to "/a" that came with the container of "/b" has been clicked; the
\* anchors outside the container still have the one listener setup() gave them
C18_Witness ==
    /\ hist[1].url = "/a" /\ okPasses > 0
    /\ lastEvent.type = "click" /\ lastEvent.href = "/a"
    /\ Len(lastEvent.requested) = 1 /\ Len(lastEvent.pushed) = 1
    /\ \E p \in LinkPaths(doc) : Len(p) = 1 /\ At(doc, p).n = 1

\* C16: the load queue only grows: a step that registers a function appends it
\* at the end, and every other step (onload with something that is no function,
\* setup, a click, a load listener with its replay, a callback that throws, a
\* failed request) leaves the queue as it is.
C16_QueueOnlyGrows ==
    [][ /\ Len(stats') = Len(stats) + 1
            => \E c \in Callbacks : queue' = Append(queue, c)
        /\ Len(stats') # Len(stats) + 1 => queue' = queue
        /\ Len(queue') = Len(stats') ]_vars

\* two different callbacks are queued in the order they were registered, past a
\* replay in which one of them threw
C16_Witness ==
    /\ queue = << "f", "bad" >>
    /\ okPasses > 0 /\ lastPass.hook
    /\ lastExec.logged # << >>
    /\ stats[1].pass > 0 /\ stats[2].pass > 0

\* C17: the callbacks a load listener replays find the patched document: the
\* live container is the fetched one of that listener and the elements outside
\* it carry the texts and attributes that listener copied; what they find is the
\* document the listener leaves.
C17_ReplaySeesNewContent ==
    [][ (passes' # passes /\ lastPass'.hook) =>
          /\ lastPass'.observed = doc'
          /\ ContainerOf(lastPass'.observed).id = passes'
          /\ ContainerOf(lastPass'.observed).val = lastPass'.url
          /\ \A e \in ReplaceEntries :
                LET live == querySelectorAll(doc, Simple(e.selector))
                IN \A i \in 1..Len(live) :
                      Len(live[i]) = 1 =>
                         At(lastPass'.observed, live[i]).val
                            = ExpectedVal(doc, FetchedBy(lastPass', passes'), e, i)
      ]_vars

\* a callback has been replayed by the load listener of "/b" on a page that
\* started as "/a"
C17_Witness ==
    /\ lastPass.hook /\ lastPass.url = "/b"
    /\ Len(queue) > 0 /\ stats[1].pass > 0
    /\ lastExec.invoked = queue
    /\ lastPass.observed[1].val = "B"
    /\ ContainerOf(lastPass.observed).val = "/b"

\* the text of the first title element of a document
TitleOf(d) == At(d, querySelector(d, Simple("title"))).val

\* the last load listener threw with a container in the live document, which
\* shows the title of the document that listener had fetched next to a container
\* from another address
HalfPatched ==
    /\ lastPass.ran /\ lastPass.threw
    /\ Len(Containers(doc)) > 0
    /\ TitleOf(doc) = TitleOf(FetchedBy(lastPass, passes))
    /\ ContainerOf(doc).val # lastPass.url

\* C19: a load listener is not atomic: when it throws at the swap because the
\* fetched document has no container, every copy of its text and attribute
\* loops is in the live document while the live containers are the elements
\* they were; the live document then shows a fetched title next to a container
\* from another address until a load listener succeeds.
C19_PartialPass ==
    [][ /\ ( /\ passes' # passes
             /\ Len(Containers(doc)) > 0
             /\ Len(Containers(FetchedBy(lastPass', passes'))) = 0 )
            => /\ lastPass'.threw
               /\ ContainerIds(doc') = ContainerIds(doc)
               /\ HalfPatched'
               /\ \A e \in ReplaceEntries :
                     LET live == querySelectorAll(doc, Simple(e.selector))
                     IN \A i \in 1..Len(live) :
                           At(doc', live[i]).val
                              = ExpectedVal(doc, FetchedBy(lastPass', passes'), e, i)
        /\ (HalfPatched /\ okPasses' = okPasses) => HalfPatched' ]_vars

\* the live document has the title and the headings of the "/undefined" page
\* around and inside the container of "/b"
C19_Witness ==
    /\ HalfPatched /\ lastPass.url = NotFoundUrl
    /\ TitleOf(doc) = "404"
    /\ ContainerOf(doc).val = "/b"
    /\ ContainerOf(doc).kids[1].val = "Try again"

\* C20: the click listener sends the request first and pushes the entry second,
\* in the one step of the click, which runs no load listener; a load listener is
\* a later step that leaves the history alone, and by then every request a click
\* has sent has its entry pushed.
C20_PushedBeforePass ==
    [][ /\ clicks' # clicks
            => /\ lastEvent'.calls = << "request", "pushState" >>
               /\ sent' = sent + 1
               /\ pushes' = pushes + 1
               /\ Len(hist') = idx'
               /\ passes' = passes /\ doc' = doc /\ stats' = stats
        /\ passes' # passes
            => /\ pushes = sent
               /\ pushes >= passes'
               /\ pushes' = pushes /\ hist' = hist /\ idx' = idx ]_vars

\* the load listener of a clicked link has run and replayed a callback, the
\* entry of that click being the current one
C20_Witness ==
    /\ lastEvent.type = "click"
    /\ lastEvent.calls = << "request", "pushState" >>
    /\ clicks = 1 /\ pushes = 1 /\ passes = 1
    /\ lastPass.hook /\ Len(queue) > 0 /\ stats[1].pass > 0
    /\ hist[idx].url = lastPass.url

====
